---- MODULE Spec2Model ----
\* Marginalia: the annotation store (useAnnotations), the offset shifter
\* (shiftAnnotations), the export formatter (generateExport), the range
\* resolver (selectionToMarkdownRange) and the highlight projector
\* (applyHighlights).
EXTENDS Integers, Sequences, FiniteSets, TLC

VARIABLES markdown, annotations, activeAnnotationId, nextId, now, last, exported,
          container, selection, pending, resolved, shown, editing, mouseUpTimerRef

\* the document view: the rendered container, the window's selection, the
\* pending annotation, what the view was seen to compute (the calls of
\* findSourcePosition, the markers after each highlighting pass), and of the
\* view with inline editing the block being edited and whether the timer of
\* handleMouseUp is running
viewVars == <<container, selection, pending, resolved, shown, editing, mouseUpTimerRef>>

vars == <<markdown, annotations, activeAnnotationId, nextId, now, last, exported,
          container, selection, pending, resolved, shown, editing, mouseUpTimerRef>>

\* ---------------------------------------------------------------- bounds
\* longest source text during the life of the store
MaxLen == 1
\* number of annotations created during the life of the store
MaxAnn == 2
\* longest source text an operation or the export is applied to
MaxInputLen == 2
\* largest number of annotations an operation or the export is applied to
MaxInputAnn == 2
\* longest paragraph without markup the view renders
MaxTextLen == 3
\* largest number of annotations the view highlights
MaxMarked == 2
\* number of highlighting passes over one container
MaxPasses == 2

\* how far an offset handed to generateExport lies outside the text
MaxOutside == 1
\* number of annotations created in the view with inline editing
MaxNoted == 1

\* ---------------------------------------------------------------- values
\* useState<string | null>(null): the null of activeAnnotationId (ids are 1, 2, ...)
Null == 0

\* a property the object literal of addAnnotation never sets reads as undefined
Undefined == "undefined"

\* the source text of length n an operation is applied to
Doc(n) == [i \in 1..n |-> IF i % 2 = 1 THEN "a" ELSE "b"]

\* the text of length n typed into the input view or the inline editor
Typed(n) == [i \in 1..n |-> "a"]

\* the notes a user types
Notes == {<<"x">>, <<"y", "z">>}

Min(a, b) == IF a < b THEN a ELSE b

Max(a, b) == IF a > b THEN a ELSE b

\* String.prototype.slice(from, to): negative indices count from the end,
\* both are clamped to [0, length]
SliceIndex(s, i) == IF i < 0 THEN Max(Len(s) + i, 0) ELSE Min(i, Len(s))

Slice(s, from, to) == SubSeq(s, SliceIndex(s, from) + 1, SliceIndex(s, to))

SliceFrom(s, from) == Slice(s, from, Len(s))

\* ---------------------------------------------------------------- the store
\* the set of ids held by a collection
Ids(s) == {s[i].id : i \in DOMAIN s}

\* faulty variant: the creation time serves as id
NewAnnotationIdFromClock(id, selectedText, note, startOffset, endOffset, createdAt) ==
  [id |-> createdAt,
   kind |-> Undefined,
   selectedText |-> selectedText,
   note |-> note,
   markdownStartOffset |-> startOffset,
   markdownEndOffset |-> endOffset,
   createdAt |-> createdAt]

\* addAnnotation: the annotation appended to the collection
NewAnnotation(id, selectedText, note, startOffset, endOffset, createdAt) ==
  [id |-> id,
   kind |-> Undefined,
   selectedText |-> selectedText,
   note |-> note,
   markdownStartOffset |-> startOffset,
   markdownEndOffset |-> endOffset,
   createdAt |-> createdAt]

\* faulty variant: unshift instead of push
PrependAnnotation(prev, annotation) == <<annotation>> \o prev

AppendAnnotation(prev, annotation) == prev \o <<annotation>>

\* faulty variant: the map gives the note to every annotation
UpdateNoteOfAll(prev, id, note) == [i \in DOMAIN prev |-> [prev[i] EXCEPT !.note = note]]

\* updateAnnotation: prev.map((a) => (a.id === id ? { ...a, note } : a))
UpdateNote(prev, id, note) ==
  [i \in DOMAIN prev |-> IF prev[i].id = id THEN [prev[i] EXCEPT !.note = note] ELSE prev[i]]

\* faulty variant: the filter keeps the annotation it should remove
RemoveIdInverted(prev, id) == SelectSeq(prev, LAMBDA a : a.id = id)

\* deleteAnnotation: prev.filter((a) => a.id !== id)
RemoveId(prev, id) == SelectSeq(prev, LAMBDA a : a.id # id)

\* deleteAnnotation: setActiveAnnotationId((prev) => (prev === id ? null : prev))
ClearActive(prev, id) == IF prev = id THEN Null ELSE prev

\* faulty variant: strict comparisons in the first filter
InsideEditStrict(a, editStart, editEnd) ==
  a.markdownStartOffset > editStart /\ a.markdownEndOffset < editEnd

\* shiftAnnotations, first filter: fully inside the edited range
InsideEdit(a, editStart, editEnd) ==
  a.markdownStartOffset >= editStart /\ a.markdownEndOffset <= editEnd

\* faulty variant: an annotation ending at editStart is not before the edit
BeforeEditStrict(a, editStart) == a.markdownEndOffset < editStart

\* shiftAnnotations, map: entirely before the edit
BeforeEdit(a, editStart) == a.markdownEndOffset <= editStart

\* shiftAnnotations, map: entirely after the edit
AfterEdit(a, editEnd) == a.markdownStartOffset >= editEnd

\* faulty variant: the anchor text is cut anew at the moved offsets
ShiftedResliced(a, delta) ==
  [a EXCEPT !.markdownStartOffset = a.markdownStartOffset + delta,
            !.markdownEndOffset = a.markdownEndOffset + delta,
            !.selectedText = Slice(a.selectedText, 0, Len(a.selectedText) + delta)]

\* faulty variant: only the start is moved
ShiftedStartOnly(a, delta) ==
  [a EXCEPT !.markdownStartOffset = a.markdownStartOffset + delta]

\* shiftAnnotations, map: the offsets moved by delta
Shifted(a, delta) ==
  [a EXCEPT !.markdownStartOffset = a.markdownStartOffset + delta,
            !.markdownEndOffset = a.markdownEndOffset + delta]

\* shiftAnnotations, map: the callback's result (NullAnnotation for null)
NullAnnotation == [id |-> Null]

\* faulty variant: the annotations before the edit are moved, those after it kept
ShiftOneSwapped(a, editStart, editEnd, delta) ==
  IF BeforeEdit(a, editStart) THEN Shifted(a, delta)
  ELSE IF AfterEdit(a, editEnd) THEN a
  ELSE NullAnnotation

\* faulty variant: a partially overlapping annotation is kept with guessed offsets
ShiftOneGuessing(a, editStart, editEnd, delta) ==
  IF BeforeEdit(a, editStart) THEN a ELSE Shifted(a, delta)

ShiftOne(a, editStart, editEnd, delta) ==
  IF BeforeEdit(a, editStart) THEN a
  ELSE IF AfterEdit(a, editEnd) THEN Shifted(a, delta)
  ELSE NullAnnotation

\* faulty variant: the sign of delta is reversed
DeltaReversed(editStart, editEnd, newLength) == (editEnd - editStart) - newLength

\* const delta = newLength - (editEnd - editStart)
Delta(editStart, editEnd, newLength) == newLength - (editEnd - editStart)

ShiftAnnotations(prev, editStart, editEnd, newLength) ==
  LET delta == Delta(editStart, editEnd, newLength)
      kept == SelectSeq(prev, LAMBDA a : ~InsideEdit(a, editStart, editEnd))
      mapped == [i \in DOMAIN kept |-> ShiftOne(kept[i], editStart, editEnd, delta)]
  IN  SelectSeq(mapped, LAMBDA a : a # NullAnnotation)

\* faulty variant: the export sorts ascending like the list
CompareAscending(a, b, dir) == a.markdownStartOffset - b.markdownStartOffset

\* the comparator (a, b) => a.markdownStartOffset - b.markdownStartOffset,
\* times dir: 1 ascending, -1 descending
Compare(a, b, dir) == dir * (a.markdownStartOffset - b.markdownStartOffset)

\* Array.prototype.sort is stable: x goes after every element not greater
InsertStable(s, x, dir) ==
  LET p == Cardinality({i \in DOMAIN s : Compare(s[i], x, dir) <= 0})
  IN  SubSeq(s, 1, p) \o <<x>> \o SubSeq(s, p + 1, Len(s))

RECURSIVE StableSort(_, _)
StableSort(s, dir) ==
  IF s = <<>> THEN <<>>
  ELSE InsertStable(StableSort(SubSeq(s, 1, Len(s) - 1), dir), s[Len(s)], dir)

\* faulty variant: annotations.sort(...) sorts the array it was handed
ArraySortedInPlace(anns, dir) == StableSort(anns, dir)

\* [...annotations].sort(...): sort works in place on the copy the spread
\* made, so the array that was handed in is afterwards what it was
ArrayAfterSortedCopy(anns, dir) == anns

\* const sortedAnnotations = [...annotations].sort(...): the hook's list
sortedAnnotations == StableSort(annotations, 1)

\* ---------------------------------------------------------------- the export
\* a string whose characters remember where they come from: owner Null for a
\* character of the markdown, the annotation's id for a character of its note
Owned(text, owner) == [i \in DOMAIN text |-> [ch |-> text[i], owner |-> owner]]

\* the string itself
Text(s) == [i \in DOMAIN s |-> s[i].ch]

\* const note = `{${ann.note}}`
NoteLiteral(ann) == <<"{">> \o ann.note \o <<"}">>

\* the point branch: result.slice(0, start) + note + result.slice(start)
InsertAtPoint(result, ann) ==
  Slice(result, 0, ann.markdownStartOffset)
    \o Owned(NoteLiteral(ann), ann.id)
    \o SliceFrom(result, ann.markdownStartOffset)

\* faulty variant: the note overwrites the character after the range
InsertAfterRangeOverwriting(result, ann) ==
  Slice(result, 0, ann.markdownEndOffset)
    \o Owned(<<" ">> \o NoteLiteral(ann), ann.id)
    \o SliceFrom(result, ann.markdownEndOffset + 1)

\* the range branch: result.slice(0, end) + ' ' + note + result.slice(end)
InsertAfterRange(result, ann) ==
  Slice(result, 0, ann.markdownEndOffset)
    \o Owned(<<" ">> \o NoteLiteral(ann), ann.id)
    \o SliceFrom(result, ann.markdownEndOffset)

\* the body of the loop over sorted
ExportOne(result, ann) ==
  IF ann.kind = "point" THEN InsertAtPoint(result, ann) ELSE InsertAfterRange(result, ann)

\* for (const ann of sorted) from the k-th annotation on
RECURSIVE ExportLoop(_, _, _)
ExportLoop(result, sorted, k) ==
  IF k > Len(sorted) THEN result
  ELSE ExportLoop(ExportOne(result, sorted[k]), sorted, k + 1)

generateExport(md, anns) ==
  IF Len(anns) = 0 THEN Owned(md, Null)
  ELSE ExportLoop(Owned(md, Null), StableSort(anns, -1), 1)

\* ---------------------------------------------------------------- the render tree
\* findSourcePosition's null (offsets are 0, 1, ...)
NoPosition == -1

\* the text react-markdown renders for the source characters at offsets
\* from .. to - 1: each rendered character remembers the offset it shows
Rendered(md, from, to) ==
  [i \in 1..(to - from) |-> [ch |-> md[from + i], src |-> from + i - 1]]

\* the "\n" the renderer puts between blocks: it shows no source character
LineBreak == <<[ch |-> "\n", src |-> NoPosition]>>

\* an element with data-source-start and data-source-end, as the rehype plugin
\* sets them from node.position; parent 0 is the container, which has neither.
\* Elements are numbered in document order.
Element(start, end, parent) == [start |-> start, end |-> end, parent |-> parent]

\* a node outside any <mark>
NoMark == [id |-> Null, key |-> 0, active |-> FALSE]

\* a text node: el is the nearest element with source attributes above it
\* (0 for the container), mark the <mark> that is its parent, if any
TextNode(text, el, mark) ==
  [kind |-> "text", text |-> text, el |-> el, mark |-> mark, id |-> Null, active |-> FALSE]

\* const marker = document.createElement('span') with both id attributes
PointMarker(ann, isActive, el, mark) ==
  [kind |-> "point", text |-> <<>>, el |-> el, mark |-> mark, id |-> ann.id,
   active |-> isActive]

\* <p>text</p> for a source without markup
Paragraph(md) ==
  [markdown |-> md,
   elements |-> <<Element(0, Len(md), 0)>>,
   nodes |-> <<TextNode(Rendered(md, 0, Len(md)), 1, NoMark)>>]

\* the source of length n without markup: "a", "a ", "a a", ...
PlainText(n) == [i \in 1..n |-> IF i % 2 = 1 THEN "a" ELSE " "]

\* <p><em>a</em>b</p>
Emphasis ==
  LET md == <<"*", "a", "*", "b">> IN
  [markdown |-> md,
   elements |-> <<Element(0, 4, 0), Element(0, 3, 1)>>,
   nodes |-> <<TextNode(Rendered(md, 1, 2), 2, NoMark),
               TextNode(Rendered(md, 3, 4), 1, NoMark)>>]

\* <p><em>a</em><em>b</em>c</p>
TwoEmphases ==
  LET md == <<"*", "a", "*", "*", "b", "*", "c">> IN
  [markdown |-> md,
   elements |-> <<Element(0, 7, 0), Element(0, 3, 1), Element(3, 6, 1)>>,
   nodes |-> <<TextNode(Rendered(md, 1, 2), 2, NoMark),
               TextNode(Rendered(md, 4, 5), 3, NoMark),
               TextNode(Rendered(md, 6, 7), 1, NoMark)>>]

\* <p>a</p> "\n" <p>b</p>
TwoParagraphs ==
  LET md == <<"a", "\n", "\n", "b">> IN
  [markdown |-> md,
   elements |-> <<Element(0, 1, 0), Element(3, 4, 0)>>,
   nodes |-> <<TextNode(Rendered(md, 0, 1), 1, NoMark),
               TextNode(LineBreak, 0, NoMark),
               TextNode(Rendered(md, 3, 4), 2, NoMark)>>]

\* <ul> "\n" <li>a</li> "\n" </ul>
ListItem ==
  LET md == <<"-", " ", "a">> IN
  [markdown |-> md,
   elements |-> <<Element(0, 3, 0), Element(0, 3, 1)>>,
   nodes |-> <<TextNode(LineBreak, 1, NoMark),
               TextNode(Rendered(md, 2, 3), 2, NoMark),
               TextNode(LineBreak, 1, NoMark)>>]

\* el.parentElement ... up to root: e is root or below it
RECURSIVE IsInside(_, _, _)
IsInside(elements, e, root) ==
  \/ e = root
  \/ e # 0 /\ IsInside(elements, elements[e].parent, root)

\* document.createTreeWalker(el, NodeFilter.SHOW_TEXT): the text nodes below el
TextNodesIn(c, el) ==
  {i \in DOMAIN c.nodes :
     c.nodes[i].kind = "text" /\ IsInside(c.elements, c.nodes[i].el, el)}

\* charCount when the walk over the text nodes of el arrives at node i
CharCount(c, el, i) ==
  Cardinality(UNION {{<<j, k>> : k \in DOMAIN c.nodes[j].text}
                       : j \in {j \in TextNodesIn(c, el) : j < i}})

\* the first node of a set in document order
FirstOf(S) == CHOOSE x \in S : \A y \in S : x <= y

\* node i gives way to the nodes new
ReplaceNode(c, i, new) ==
  [c EXCEPT !.nodes = SubSeq(@, 1, i - 1) \o new \o SubSeq(@, i + 1, Len(@))]

\* a <mark> element not yet in the tree
NewMark(c, ann, isActive) ==
  LET keys == {c.nodes[i].mark.key : i \in DOMAIN c.nodes} \cup {0}
  IN  [id |-> ann.id, key |-> 1 + (CHOOSE k \in keys : \A l \in keys : l <= k),
       active |-> isActive]

\* range.surroundContents(mark) for a range inside text node i: the node keeps
\* the text before the range, the mark holds the text of the range, and a new
\* text node holds the rest; either outer node may be empty
SurroundContents(c, i, wrapStart, wrapEnd, mark) ==
  LET n == c.nodes[i] IN
  ReplaceNode(c, i,
    <<[n EXCEPT !.text = SubSeq(n.text, 1, wrapStart)],
      [n EXCEPT !.text = SubSeq(n.text, wrapStart + 1, wrapEnd), !.mark = mark],
      [n EXCEPT !.text = SubSeq(n.text, wrapEnd + 1, Len(n.text))]>>)

\* wrapAnnotationRange, the body of the loop over elements: the first text
\* node of el that overlaps the annotation and is not the child of a <mark> is
\* wrapped, and the loop over the text nodes ends
WrapInElement(c, ann, isActive, el) ==
  LET elStart == c.elements[el].start
      elEnd == c.elements[el].end
      annotationStartInEl == Max(0, ann.markdownStartOffset - elStart)
      annotationEndInEl == Min(elEnd - elStart, ann.markdownEndOffset - elStart)
      NodeStart(i) == CharCount(c, el, i)
      NodeEnd(i) == CharCount(c, el, i) + Len(c.nodes[i].text)
      WrapStart(i) == Max(0, annotationStartInEl - NodeStart(i))
      WrapEnd(i) == Min(Len(c.nodes[i].text), annotationEndInEl - NodeStart(i))
      wrappable == {i \in TextNodesIn(c, el) :
                      /\ NodeStart(i) < annotationEndInEl
                      /\ NodeEnd(i) > annotationStartInEl
                      /\ WrapStart(i) < WrapEnd(i)
                      /\ c.nodes[i].mark = NoMark}
  IN  IF elStart >= ann.markdownEndOffset \/ elEnd <= ann.markdownStartOffset
      THEN c
      ELSE IF wrappable = {} THEN c
      ELSE LET i == FirstOf(wrappable)
           IN  SurroundContents(c, i, WrapStart(i), WrapEnd(i), NewMark(c, ann, isActive))

\* wrapAnnotationRange: for (const el of elements), from element el on
RECURSIVE WrapLoop(_, _, _, _)
WrapLoop(c, ann, isActive, el) ==
  IF el > Len(c.elements) THEN c
  ELSE WrapLoop(WrapInElement(c, ann, isActive, el), ann, isActive, el + 1)

wrapAnnotationRange(c, ann, isActive) == WrapLoop(c, ann, isActive, 1)

\* textNode.splitText(offsetInNode): the node keeps the text before the
\* offset, a new text node after it holds the rest
SplitText(n, offsetInNode) ==
  <<[n EXCEPT !.text = SubSeq(n.text, 1, offsetInNode)],
    [n EXCEPT !.text = SubSeq(n.text, offsetInNode + 1, Len(n.text))]>>

\* insertPointMarker, if (textNode): the node is split when the offset lies
\* strictly inside it, and the marker goes before textNode.nextSibling
InsertMarker(c, i, offsetInNode, ann, isActive) ==
  LET n == c.nodes[i]
      marker == PointMarker(ann, isActive, n.el, n.mark)
  IN  IF offsetInNode > 0 /\ offsetInNode < Len(n.text)
      THEN LET halves == SplitText(n, offsetInNode)
           IN  ReplaceNode(c, i, <<halves[1], marker, halves[2]>>)
      ELSE ReplaceNode(c, i, <<n, marker>>)

\* insertPointMarker: for (const el of elements), from element el on; the
\* function returns after the first element in which a text node is found
RECURSIVE PointLoop(_, _, _, _)
PointLoop(c, ann, isActive, el) ==
  IF el > Len(c.elements) THEN c
  ELSE LET elStart == c.elements[el].start
           elEnd == c.elements[el].end
           targetOffset == ann.markdownStartOffset - elStart
           reached == {i \in TextNodesIn(c, el) :
                         CharCount(c, el, i) + Len(c.nodes[i].text) >= targetOffset}
       IN  IF ann.markdownStartOffset < elStart \/ ann.markdownStartOffset > elEnd
           THEN PointLoop(c, ann, isActive, el + 1)
           ELSE IF reached = {} THEN PointLoop(c, ann, isActive, el + 1)
           ELSE LET i == FirstOf(reached)
                IN  InsertMarker(c, i, targetOffset - CharCount(c, el, i), ann, isActive)

insertPointMarker(c, ann, isActive) == PointLoop(c, ann, isActive, 1)

\* the <mark> elements of the tree
MarkKeys(c) == {c.nodes[i].mark.key : i \in DOMAIN c.nodes} \ {0}

\* while (mark.firstChild) parent.insertBefore(mark.firstChild, mark);
\* parent.removeChild(mark)
Unwrap(c, key) ==
  [c EXCEPT !.nodes = [i \in DOMAIN @ |->
     IF @[i].mark.key = key THEN [@[i] EXCEPT !.mark = NoMark] ELSE @[i]]]

\* two adjacent text nodes below root with the same parent
Mergeable(elements, a, b, root) ==
  /\ a.kind = "text" /\ b.kind = "text"
  /\ a.el = b.el /\ a.mark = b.mark
  /\ IsInside(elements, a.el, root)

RECURSIVE JoinText(_, _, _, _)
JoinText(elements, nodes, root, k) ==
  IF k = 0 THEN <<>>
  ELSE LET joined == JoinText(elements, nodes, root, k - 1)
       IN  IF joined # <<>> /\ Mergeable(elements, joined[Len(joined)], nodes[k], root)
           THEN [joined EXCEPT ![Len(joined)].text = @ \o nodes[k].text]
           ELSE Append(joined, nodes[k])

\* parent.normalize(): below parent, empty text nodes are removed and
\* adjacent text nodes are joined
Normalize(c, parent) ==
  LET kept == SelectSeq(c.nodes, LAMBDA n :
                ~(n.kind = "text" /\ n.text = <<>> /\ IsInside(c.elements, n.el, parent)))
  IN  [c EXCEPT !.nodes = JoinText(c.elements, kept, parent, Len(kept))]

\* faulty variant: the marks stay in the tree
KeepMarks(c) == c

\* querySelectorAll('mark[data-annotation-id]').forEach: the marks in document
\* order are unwrapped, and the parent of each is normalized
RECURSIVE RemoveMarks(_)
RemoveMarks(c) ==
  IF MarkKeys(c) = {} THEN c
  ELSE LET first == FirstOf({i \in DOMAIN c.nodes : c.nodes[i].mark.key # 0})
       IN  RemoveMarks(Normalize(Unwrap(c, c.nodes[first].mark.key), c.nodes[first].el))

\* faulty variant: the point markers stay in the tree
KeepPointMarkers(c) == c

\* querySelectorAll('span[data-point-annotation-id]').forEach: the spans are
\* removed, and no parent is normalized
RemovePointMarkers(c) ==
  [c EXCEPT !.nodes = SelectSeq(@, LAMBDA n : n.kind # "point")]

\* the body of the loop over sorted
HighlightOne(c, ann, activeId) ==
  IF ann.kind = "point" THEN insertPointMarker(c, ann, activeId = ann.id)
  ELSE wrapAnnotationRange(c, ann, activeId = ann.id)

\* for (const annotation of sorted) from the k-th annotation on
RECURSIVE HighlightLoop(_, _, _, _)
HighlightLoop(c, sorted, activeId, k) ==
  IF k > Len(sorted) THEN c
  ELSE HighlightLoop(HighlightOne(c, sorted[k], activeId), sorted, activeId, k + 1)

applyHighlights(c, anns, activeId) ==
  HighlightLoop(RemovePointMarkers(RemoveMarks(c)), StableSort(anns, -1), activeId, 1)

\* the text inside a <mark>, from node k on
RECURSIVE MarkText(_, _, _)
MarkText(c, key, k) ==
  IF k > Len(c.nodes) THEN <<>>
  ELSE (IF c.nodes[k].mark.key = key THEN c.nodes[k].text ELSE <<>>)
         \o MarkText(c, key, k + 1)

\* the marks and point markers of the tree in document order, from node i on:
\* tag, annotation id, active flag, the text inside, and the number of
\* rendered characters of the container before it
RECURSIVE MarkersFrom(_, _)
MarkersFrom(c, i) ==
  IF i > Len(c.nodes) THEN <<>>
  ELSE LET n == c.nodes[i]
           opensMark == n.mark.key # 0 /\ (i = 1 \/ c.nodes[i - 1].mark.key # n.mark.key)
           mark == [tag |-> "mark", id |-> n.mark.id, active |-> n.mark.active,
                    text |-> MarkText(c, n.mark.key, 1), before |-> CharCount(c, 0, i)]
           span == [tag |-> "span", id |-> n.id, active |-> n.active,
                    text |-> <<>>, before |-> CharCount(c, 0, i)]
       IN  (IF opensMark THEN <<mark>> ELSE <<>>)
             \o (IF n.kind = "point" THEN <<span>> ELSE <<>>)
             \o MarkersFrom(c, i + 1)

Markers(c) == MarkersFrom(c, 1)

\* ---------------------------------------------------------------- the selection
\* a boundary point of the selection's range or a caret position: offset
\* characters into text node at, or before (offset 0) or after all children of
\* element at (0: the container itself), or a node outside the container,
\* before it (offset 0) or after it
TextPoint(at, offset) == [kind |-> "text", at |-> at, offset |-> offset]

ElementPoint(at, offset) == [kind |-> "element", at |-> at, offset |-> offset]

OutsidePoint(offset) == [kind |-> "outside", at |-> 0, offset |-> offset]

\* window.getSelection() without a range
NoSelection == [rangeCount |-> 0, start |-> OutsidePoint(0), end |-> OutsidePoint(0)]

\* selectionToMarkdownRange's null, and the null of useState<PendingAnnotation | null>
NoRange == [startOffset |-> NoPosition, endOffset |-> NoPosition, selectedText |-> <<>>]

NoPending ==
  [kind |-> "none", selectedText |-> <<>>, startOffset |-> NoPosition,
   endOffset |-> NoPosition]

\* the null of useState<InlineEdit | null>
NoEditing ==
  [startOffset |-> NoPosition, endOffset |-> NoPosition, originalMarkdown |-> <<>>]

\* the number of child nodes of an element of a tree without marks
ChildCount(c, el) ==
  Cardinality({i \in DOMAIN c.nodes : c.nodes[i].el = el})
    + Cardinality({e \in DOMAIN c.elements : c.elements[e].parent = el})

\* the text of the container from node k on
RECURSIVE TextFrom(_, _)
TextFrom(c, k) ==
  IF k > Len(c.nodes) THEN <<>> ELSE c.nodes[k].text \o TextFrom(c, k + 1)

\* the number of rendered characters of the container before a boundary point
CharsBefore(c, point) ==
  IF point.kind = "text" THEN CharCount(c, 0, point.at) + point.offset
  ELSE IF point.kind = "element"
    THEN CharCount(c, 0, FirstOf(TextNodesIn(c, point.at)))
           + (IF point.offset = 0 THEN 0 ELSE CharCount(c, point.at, Len(c.nodes) + 1))
  ELSE IF point.offset = 0 THEN -1 ELSE Len(TextFrom(c, 1)) + 1

\* the boundary points a user can reach
Points(c) ==
  UNION {{TextPoint(i, o) : o \in 0..Len(c.nodes[i].text)} : i \in TextNodesIn(c, 0)}
    \cup {ElementPoint(e, 0) : e \in DOMAIN c.elements \cup {0}}
    \cup {ElementPoint(e, ChildCount(c, e)) : e \in DOMAIN c.elements \cup {0}}
    \cup {OutsidePoint(0), OutsidePoint(1)}

\* the selections a user can make: none, a caret, or a range whose end lies
\* after its start
Selections(c) ==
  {NoSelection}
    \cup {[rangeCount |-> 1, start |-> s, end |-> e] : <<s, e>> \in
            {p \in Points(c) \X Points(c) :
               p[1] = p[2] \/ CharsBefore(c, p[1]) < CharsBefore(c, p[2])}}

\* selection.toString(): the rendered characters between the boundary points
SelectionText(c, sel) ==
  LET all == TextFrom(c, 1)
      chosen == SubSeq(all, Max(CharsBefore(c, sel.start), 0) + 1,
                       Min(CharsBefore(c, sel.end), Len(all)))
  IN  [i \in DOMAIN chosen |-> chosen[i].ch]

WhiteSpace == {" ", "\n"}

\* faulty variant: nothing is trimmed
Untrimmed(text) == text

\* String.prototype.trim()
RECURSIVE Trim(_)
Trim(text) ==
  IF text = <<>> THEN text
  ELSE IF text[1] \in WhiteSpace THEN Trim(Tail(text))
  ELSE IF text[Len(text)] \in WhiteSpace THEN Trim(SubSeq(text, 1, Len(text) - 1))
  ELSE text

\* containerEl.contains(node)
Contains(c, point) == point.kind # "outside"

\* node.nodeType === ELEMENT_NODE ? node : node.parentElement, up to the first
\* element that is no <mark>: marks carry no source attributes
StartElement(c, point) ==
  IF point.kind = "element" THEN point.at ELSE c.nodes[point.at].el

\* faulty variant: the walk goes on to the outermost element with attributes
RECURSIVE OutermostSource(_, _)
OutermostSource(c, el) ==
  IF el = 0 THEN 0
  ELSE IF c.elements[el].parent = 0 THEN el
  ELSE OutermostSource(c, c.elements[el].parent)

\* while (el): the first element from el upwards with both source attributes,
\* 0 if the walk ends without one; every numbered element carries them
NearestSource(c, el) == el

\* getTextOffsetInElement(root, targetNode, targetOffset): the text before
\* the target text node plus the offset, or all the text of root when the
\* walk over its text nodes never meets the target (an element)
getTextOffsetInElement(c, root, point) ==
  IF point.kind = "text" THEN CharCount(c, root, point.at) + point.offset
  ELSE CharCount(c, root, Len(c.nodes) + 1)

\* findSourcePosition(node, offset, which): both branches return
\* Math.min(start + textBefore, end)
findSourcePosition(c, point) ==
  LET el == NearestSource(c, StartElement(c, point)) IN
  IF el = 0 THEN NoPosition
  ELSE Min(c.elements[el].start + getTextOffsetInElement(c, el, point),
           c.elements[el].end)

\* selectionToMarkdownRange(selection, containerEl)
selectionToMarkdownRange(c, sel) ==
  IF sel.rangeCount = 0 THEN NoRange
  ELSE IF sel.start = sel.end THEN NoRange
  ELSE IF ~Contains(c, sel.start) \/ ~Contains(c, sel.end) THEN NoRange
  ELSE IF Trim(SelectionText(c, sel)) = <<>> THEN NoRange
  ELSE IF findSourcePosition(c, sel.start) = NoPosition
            \/ findSourcePosition(c, sel.end) = NoPosition THEN NoRange
  ELSE [startOffset |-> findSourcePosition(c, sel.start),
        endOffset |-> findSourcePosition(c, sel.end),
        selectedText |-> Trim(SelectionText(c, sel))]

\* clickToMarkdownOffset(node, offset, containerEl)
clickToMarkdownOffset(c, point) ==
  IF ~Contains(c, point) THEN NoPosition ELSE findSourcePosition(c, point)

\* ---------------------------------------------------------------- history
\* the operation observed last, its arguments and the state it started from
NoOp == [op |-> "none", id |-> Null, editStart |-> 0, editEnd |-> 0, newLength |-> 0,
         prevAnnotations |-> <<>>, prevActive |-> Null, prevLength |-> 0]

Did(op, id, editStart, editEnd, newLength) ==
  [op |-> op, id |-> id, editStart |-> editStart, editEnd |-> editEnd,
   newLength |-> newLength, prevAnnotations |-> annotations,
   prevActive |-> activeAnnotationId, prevLength |-> Len(markdown)]

\* ---------------------------------------------------------------- handlers
\* addAnnotation(selectedText, note, startOffset, endOffset): uuidv4() is the
\* next unused id, Date.now() the clock after tick more milliseconds
addAnnotation(selectedText, note, startOffset, endOffset, tick) ==
  /\ now' = now + tick
  /\ annotations' = AppendAnnotation(annotations,
       NewAnnotation(nextId, selectedText, note, startOffset, endOffset, now'))
  /\ nextId' = nextId + 1
  /\ UNCHANGED <<markdown, activeAnnotationId, exported>>

\* updateAnnotation(id, note)
updateAnnotation(id, note) ==
  /\ annotations' = UpdateNote(annotations, id, note)
  /\ UNCHANGED <<markdown, activeAnnotationId, nextId, now, exported>>

\* deleteAnnotation(id)
deleteAnnotation(id) ==
  /\ annotations' = RemoveId(annotations, id)
  /\ activeAnnotationId' = ClearActive(activeAnnotationId, id)
  /\ UNCHANGED <<markdown, nextId, now, exported>>

\* setActiveAnnotationId(id)
setActiveAnnotationId(id) ==
  /\ activeAnnotationId' = id
  /\ UNCHANGED <<markdown, annotations, nextId, now, exported>>

\* shiftAnnotations(editStart, editEnd, newLength)
shiftAnnotations(editStart, editEnd, newLength) ==
  /\ annotations' = ShiftAnnotations(annotations, editStart, editEnd, newLength)
  /\ UNCHANGED <<activeAnnotationId, nextId, now, exported>>

\* an inline edit: the shell replaces markdown[editStart, editEnd) by newText
\* and calls shiftAnnotations(editStart, editEnd, newText.length)
handleEditMarkdown(editStart, editEnd, newText) ==
  /\ markdown' = Slice(markdown, 0, editStart) \o newText \o SliceFrom(markdown, editEnd)
  /\ shiftAnnotations(editStart, editEnd, Len(newText))

\* handleEditSave: the edit is reported when the text of the block changed
handleEditSave(startOffset, endOffset, newText) ==
  /\ newText # Slice(markdown, startOffset, endOffset)
  /\ handleEditMarkdown(startOffset, endOffset, newText)

\* ---------------------------------------------------------------- the document view
\* the container the view mounts for a rendered tree
Mount(tree) == [elements |-> tree.elements, nodes |-> tree.nodes]

\* nothing was resolved yet
NoCalls == [calls |-> <<>>, result |-> NoRange]

\* the view of a session in which no document is looked at
NoView ==
  /\ container = [elements |-> <<>>, nodes |-> <<>>]
  /\ selection = NoSelection
  /\ pending = NoPending
  /\ resolved = NoCalls
  /\ shown = <<>>
  /\ editing = NoEditing
  /\ mouseUpTimerRef = FALSE

\* handleMouseUp: nothing happens when the selection resolves to null
handleMouseUp ==
  LET result == selectionToMarkdownRange(container, selection) IN
  /\ pending' = IF result = NoRange THEN pending
                ELSE [kind |-> "range", selectedText |-> result.selectedText,
                      startOffset |-> result.startOffset,
                      endOffset |-> result.endOffset]
  /\ UNCHANGED <<container, selection>>

\* (e.target as HTMLElement).closest('mark[data-annotation-id]')
InsideMark(c, caret) == caret.kind = "text" /\ c.nodes[caret.at].mark # NoMark

\* handleDoubleClick with the caret position of the click
handleDoubleClick(caret) ==
  LET mdOffset == clickToMarkdownOffset(container, caret) IN
  IF InsideMark(container, caret) THEN UNCHANGED <<container, selection, pending>>
  ELSE /\ selection' = NoSelection
       /\ pending' = IF mdOffset = NoPosition THEN pending
                     ELSE [kind |-> "point", selectedText |-> <<>>,
                           startOffset |-> mdOffset, endOffset |-> mdOffset]
       /\ UNCHANGED container

\* handlePopoverSubmit(note)
handlePopoverSubmit(note) ==
  /\ pending # NoPending
  /\ addAnnotation(pending.selectedText, note, pending.startOffset, pending.endOffset, 1)
  /\ pending' = NoPending
  /\ selection' = NoSelection
  /\ UNCHANGED container

\* ---------------------------------------------------------------- the store's life
\* the store of a session that loaded a text (the input view submits no empty text)
Init ==
  /\ NoView
  /\ markdown \in {Typed(n) : n \in 1..MaxLen}
  /\ annotations = <<>>
  /\ activeAnnotationId = Null
  /\ nextId = 1
  /\ now = 0
  /\ last = NoOp
  /\ exported = <<>>

\* an annotation is created with offsets inside the text
AddAnnotation ==
  /\ nextId <= MaxAnn
  /\ \E startOffset \in 0..Len(markdown), note \in Notes, tick \in 0..1 :
       \E endOffset \in startOffset..Len(markdown) :
         addAnnotation(Slice(markdown, startOffset, endOffset), note,
                       startOffset, endOffset, tick)
  /\ UNCHANGED <<last, viewVars>>

UpdateAnnotation ==
  /\ \E id \in Ids(annotations), note \in Notes : updateAnnotation(id, note)
  /\ UNCHANGED <<last, viewVars>>

DeleteAnnotation ==
  /\ \E id \in Ids(annotations) : deleteAnnotation(id)
  /\ UNCHANGED <<last, viewVars>>

\* the list and the markers activate annotations of the current set
SetActive ==
  /\ \E id \in Ids(annotations) : setActiveAnnotationId(id)
  /\ UNCHANGED <<last, viewVars>>

EditMarkdown ==
  /\ \E editStart \in 0..Len(markdown), newLength \in 0..MaxLen :
       \E editEnd \in editStart..Len(markdown) :
         /\ Len(markdown) - (editEnd - editStart) + newLength <= MaxLen
         /\ handleEditSave(editStart, editEnd, Typed(newLength))
  /\ UNCHANGED <<last, viewVars>>

Next ==
  \/ AddAnnotation
  \/ UpdateAnnotation
  \/ DeleteAnnotation
  \/ SetActive
  \/ EditMarkdown

Spec == Init /\ [][Next]_vars

\* ---------------------------------------------------------------- the session
\* useState<string | null>(null): the value of markdown while no document is
\* loaded (no text holds this character)
NoDocument == <<"null">>

\* handleLoadMarkdown(content)
handleLoadMarkdown(content) ==
  /\ markdown' = content
  /\ UNCHANGED <<annotations, activeAnnotationId, nextId, now, exported>>

\* handleReset: setMarkdown(null); setActiveAnnotationId(null)
handleReset ==
  /\ markdown' = NoDocument
  /\ activeAnnotationId' = Null
  /\ UNCHANGED <<annotations, nextId, now, exported>>

\* the shell shows the input view first
InitSession ==
  /\ NoView
  /\ markdown = NoDocument
  /\ annotations = <<>>
  /\ activeAnnotationId = Null
  /\ nextId = 1
  /\ now = 0
  /\ last = NoOp
  /\ exported = <<>>

\* the input view submits a text that is not blank
LoadMarkdown ==
  /\ markdown = NoDocument
  /\ \E n \in 1..MaxInputLen : handleLoadMarkdown(Typed(n))
  /\ last' = Did("load", Null, 0, 0, 0)
  /\ UNCHANGED viewVars

\* the title button is there while a document is shown
Reset ==
  /\ markdown # NoDocument
  /\ handleReset
  /\ last' = Did("reset", Null, 0, 0, 0)
  /\ UNCHANGED viewVars

\* the document view and the sidebar are there while a document is shown
SessionAdd ==
  /\ markdown # NoDocument
  /\ nextId <= MaxAnn
  /\ \E startOffset \in 0..Len(markdown), note \in Notes :
       \E endOffset \in startOffset..Len(markdown) :
         addAnnotation(Slice(markdown, startOffset, endOffset), note,
                       startOffset, endOffset, 1)
  /\ last' = Did("add", nextId, 0, 0, 0)
  /\ UNCHANGED viewVars

SessionDelete ==
  /\ markdown # NoDocument
  /\ \E id \in Ids(annotations) : deleteAnnotation(id) /\ last' = Did("delete", id, 0, 0, 0)
  /\ UNCHANGED viewVars

SessionActivate ==
  /\ markdown # NoDocument
  /\ \E id \in Ids(annotations) : setActiveAnnotationId(id) /\ last' = Did("activate", id, 0, 0, 0)
  /\ UNCHANGED viewVars

NextSession ==
  \/ LoadMarkdown
  \/ Reset
  \/ SessionAdd
  \/ SessionDelete
  \/ SessionActivate

SpecSession == InitSession /\ [][NextSession]_vars

\* ---------------------------------------------------------------- one operation
\* the collections of at most k annotations over a text of length n, as the
\* store holds them: ids and creation times in the order of creation
Offsets(n) == {p \in (0..n) \X (0..n) : p[1] <= p[2]}

StoredAnnotation(md, i, p) ==
  NewAnnotation(i, Slice(md, p[1], p[2]), IF i % 2 = 1 THEN <<"x">> ELSE <<"y", "z">>,
                p[1], p[2], i)

Collections(md, k) ==
  UNION {{[i \in 1..m |-> StoredAnnotation(md, i, f[i])] : f \in [1..m -> Offsets(Len(md))]}
         : m \in 0..k}

InitOps ==
  /\ NoView
  /\ markdown \in {Doc(n) : n \in 0..MaxInputLen}
  /\ annotations \in Collections(markdown, MaxInputAnn)
  /\ activeAnnotationId \in {Null} \cup Ids(annotations)
  /\ nextId = Len(annotations) + 1
  /\ now = Len(annotations)
  /\ last = NoOp
  /\ exported = <<>>

OpAdd ==
  /\ last = NoOp
  /\ UNCHANGED viewVars
  /\ \E startOffset \in 0..Len(markdown), note \in Notes, tick \in 0..1 :
       \E endOffset \in startOffset..Len(markdown) :
         /\ addAnnotation(Slice(markdown, startOffset, endOffset), note,
                          startOffset, endOffset, tick)
         /\ last' = Did("add", nextId, startOffset, endOffset, 0)

OpUpdate ==
  /\ last = NoOp
  /\ UNCHANGED viewVars
  /\ \E id \in 1..MaxInputAnn, note \in Notes :
       /\ updateAnnotation(id, note)
       /\ last' = Did("update", id, 0, 0, 0)

OpDelete ==
  /\ last = NoOp
  /\ UNCHANGED viewVars
  /\ \E id \in 1..MaxInputAnn :
       /\ deleteAnnotation(id)
       /\ last' = Did("delete", id, 0, 0, 0)

OpShift ==
  /\ last = NoOp
  /\ UNCHANGED viewVars
  /\ \E editStart \in 0..Len(markdown), newLength \in 0..MaxInputLen :
       \E editEnd \in editStart..Len(markdown) :
         /\ handleEditMarkdown(editStart, editEnd, Typed(newLength))
         /\ last' = Did("shift", Null, editStart, editEnd, newLength)

NextOps ==
  \/ OpAdd
  \/ OpUpdate
  \/ OpDelete
  \/ OpShift

SpecOps == InitOps /\ [][NextOps]_vars

\* ---------------------------------------------------------------- one export
\* the arrays of at most k annotations over a text of length n handed to
\* generateExport, in any order: a range has start < end, a point start = end
ExportAnnotation(md, i, p, note) ==
  [NewAnnotation(i, Slice(md, p[1], p[2]), note, p[1], p[2], i)
     EXCEPT !.kind = IF p[1] = p[2] THEN "point" ELSE "range"]

ExportInputs(md, k) ==
  UNION {{[i \in 1..m |-> ExportAnnotation(md, i, f[i][1], f[i][2])]
            : f \in [1..m -> Offsets(Len(md)) \X Notes]}
         : m \in 0..k}

\* two documents with disjoint ranges, the second array out of start order
ShortExample ==
  LET md == <<"A", "B", " ", "C", "D">> IN
  [markdown |-> md,
   annotations |-> <<ExportAnnotation(md, 1, <<3, 4>>, <<"y">>),
                     ExportAnnotation(md, 2, <<0, 1>>, <<"x">>)>>]

LongExample ==
  LET md == <<"T", "h", "e", " ", "A", "P", "I", " ", "u", "s", "e", "s", " ", "R", "E", "S", "T", " ", "e", "n", "d", "p", "o", "i", "n", "t", "s", " ", "f", "o", "r", " ", "a", "l", "l", " ", "o", "p", "e", "r", "a", "t", "i", "o", "n", "s", ".">> IN
  [markdown |-> md,
   annotations |-> <<ExportAnnotation(md, 1, <<13, 27>>,
                                      <<"C", "o", "n", "s", "i", "d", "e", "r", " ", "G", "r", "a", "p", "h", "Q", "L">>)>>]

ExampleInputs == {ShortExample, LongExample}

InitExport ==
  /\ NoView
  /\ \/ /\ markdown \in {Doc(n) : n \in 0..MaxInputLen}
        /\ annotations \in ExportInputs(markdown, MaxInputAnn)
     \/ \E ex \in ExampleInputs :
          markdown = ex.markdown /\ annotations = ex.annotations
  /\ activeAnnotationId = Null
  /\ nextId = Len(annotations) + 1
  /\ now = Len(annotations)
  /\ last = NoOp
  /\ exported = <<>>

OpExport ==
  /\ last = NoOp
  /\ UNCHANGED viewVars
  /\ exported' = generateExport(markdown, annotations)
  /\ annotations' = ArrayAfterSortedCopy(annotations, -1)
  /\ last' = Did("export", Null, 0, 0, 0)
  /\ UNCHANGED <<markdown, activeAnnotationId, nextId, now>>

NextExport == OpExport

SpecExport == InitExport /\ [][NextExport]_vars

\* ---------------------------------------------------------------- one export, any offsets
\* generateExport takes numbers as offsets: here also offsets up to
\* MaxOutside below 0 and beyond the length of the text, as annotations of a
\* longer document have that the store still holds
OutsideOffsets(n) ==
  {p \in ((0 - MaxOutside)..(n + MaxOutside)) \X ((0 - MaxOutside)..(n + MaxOutside)) :
     p[1] <= p[2]}

OutsideInputs(md, k) ==
  UNION {{[i \in 1..m |-> ExportAnnotation(md, i, f[i],
                                            IF i % 2 = 1 THEN <<"x">> ELSE <<"y", "z">>)]
            : f \in [1..m -> OutsideOffsets(Len(md))]}
         : m \in 0..k}

InitOutside ==
  /\ NoView
  /\ markdown \in {Doc(n) : n \in 0..MaxInputLen}
  /\ annotations \in OutsideInputs(markdown, MaxInputAnn)
  /\ activeAnnotationId = Null
  /\ nextId = Len(annotations) + 1
  /\ now = Len(annotations)
  /\ last = NoOp
  /\ exported = <<>>

NextOutside == OpExport

SpecOutside == InitOutside /\ [][NextOutside]_vars

\* ---------------------------------------------------------------- one selection
\* the trees the view renders: paragraphs of up to MaxTextLen characters
\* without markup, emphasis, two blocks, a list
RenderTrees ==
  {Paragraph(PlainText(n)) : n \in 1..MaxTextLen}
    \cup {Emphasis, TwoEmphases, TwoParagraphs, ListItem}

InitSelect ==
  /\ \E tree \in RenderTrees : markdown = tree.markdown /\ container = Mount(tree)
  /\ selection \in Selections(container)
  /\ pending = NoPending
  /\ resolved = NoCalls
  /\ shown = <<>>
  /\ editing = NoEditing
  /\ mouseUpTimerRef = FALSE
  /\ annotations = <<>>
  /\ activeAnnotationId = Null
  /\ nextId = 1
  /\ now = 0
  /\ last = NoOp
  /\ exported = <<>>

\* a call of findSourcePosition and what it returned
Call(c, point) == [point |-> point, position |-> findSourcePosition(c, point)]

\* the calls selectionToMarkdownRange makes: none when it returns before them
CallsOf(c, sel) ==
  IF sel.rangeCount = 0 \/ sel.start = sel.end THEN <<>>
  ELSE IF ~Contains(c, sel.start) \/ ~Contains(c, sel.end) THEN <<>>
  ELSE IF Trim(SelectionText(c, sel)) = <<>> THEN <<>>
  ELSE <<Call(c, sel.start), Call(c, sel.end)>>

MouseUp ==
  /\ last = NoOp
  /\ handleMouseUp
  /\ resolved' = [calls |-> CallsOf(container, selection),
                  result |-> selectionToMarkdownRange(container, selection)]
  /\ last' = Did("mouseup", Null, 0, 0, 0)
  /\ UNCHANGED <<markdown, annotations, activeAnnotationId, nextId, now, exported, shown,
                 editing, mouseUpTimerRef>>

DoubleClick ==
  /\ last = NoOp
  /\ \E caret \in Points(container) :
       /\ handleDoubleClick(caret)
       /\ resolved' = [calls |-> IF Contains(container, caret)
                                 THEN <<Call(container, caret)>> ELSE <<>>,
                       result |-> NoRange]
  /\ last' = Did("dblclick", Null, 0, 0, 0)
  /\ UNCHANGED <<markdown, annotations, activeAnnotationId, nextId, now, exported, shown,
                 editing, mouseUpTimerRef>>

PopoverSubmit ==
  /\ \E note \in Notes : handlePopoverSubmit(note)
  /\ last' = Did("submit", nextId, 0, 0, 0)
  /\ UNCHANGED <<resolved, shown, editing, mouseUpTimerRef>>

NextSelect ==
  \/ MouseUp
  \/ DoubleClick
  \/ PopoverSubmit

SpecSelect == InitSelect /\ [][NextSelect]_vars

\* ---------------------------------------------------------------- highlighting
\* the arrays of at most k annotations over the source handed to
\* applyHighlights, in any order
HighlightInputs(md, k) ==
  UNION {{[i \in 1..m |-> ExportAnnotation(md, i, f[i], <<"x">>)]
            : f \in [1..m -> Offsets(Len(md))]}
         : m \in 0..k}

\* the trees that are highlighted: those of at most four source characters
HighlightTrees == RenderTrees \ {TwoEmphases}

\* no annotation is active, or the first of the array is
InitHighlight ==
  /\ \E tree \in HighlightTrees : markdown = tree.markdown /\ container = Mount(tree)
  /\ annotations \in HighlightInputs(markdown, MaxMarked)
  /\ activeAnnotationId \in {Null} \cup (Ids(annotations) \cap {1})
  /\ selection = NoSelection
  /\ pending = NoPending
  /\ resolved = NoCalls
  /\ shown = <<>>
  /\ editing = NoEditing
  /\ mouseUpTimerRef = FALSE
  /\ nextId = Len(annotations) + 1
  /\ now = Len(annotations)
  /\ last = NoOp
  /\ exported = <<>>

\* the effect runs applyHighlights on the container
Highlight ==
  /\ Len(shown) < MaxPasses
  /\ container' = applyHighlights(container, annotations, activeAnnotationId)
  /\ shown' = Append(shown, Markers(container'))
  /\ annotations' = ArrayAfterSortedCopy(annotations, -1)
  /\ last' = Did("highlight", Null, 0, 0, 0)
  /\ UNCHANGED <<markdown, activeAnnotationId, nextId, now, exported,
                 selection, pending, resolved, editing, mouseUpTimerRef>>

NextHighlight == Highlight

SpecHighlight == InitHighlight /\ [][NextHighlight]_vars

\* ---------------------------------------------------------------- annotating
\* the view highlights the annotation the popover has just added
HighlightAdded ==
  /\ last.op = "submit"
  /\ Highlight

\* the export of the document with the annotation just added and highlighted
ExportAdded ==
  /\ last.op = "highlight"
  /\ exported' = generateExport(markdown, annotations)
  /\ annotations' = ArrayAfterSortedCopy(annotations, -1)
  /\ last' = Did("export", Null, 0, 0, 0)
  /\ UNCHANGED <<markdown, activeAnnotationId, nextId, now, viewVars>>

NextAnnotate ==
  \/ MouseUp
  \/ DoubleClick
  \/ PopoverSubmit
  \/ HighlightAdded
  \/ ExportAdded

SpecAnnotate == InitSelect /\ [][NextAnnotate]_vars

\* ---------------------------------------------------------------- rendering
\* a render of the hook computes sortedAnnotations
OpList ==
  /\ last = NoOp
  /\ annotations' = ArrayAfterSortedCopy(annotations, 1)
  /\ last' = Did("list", Null, 0, 0, 0)
  /\ UNCHANGED <<markdown, activeAnnotationId, nextId, now, exported, viewVars>>

\* what reads the collection to show it: the list, the highlights, the export
NextRender ==
  \/ OpList
  \/ Highlight
  \/ OpExport

SpecRender == InitHighlight /\ [][NextRender]_vars

\* ---------------------------------------------------------------- highlighting again
\* as InitHighlight, but activeAnnotationId may also name an annotation that
\* is not in the array: shiftAnnotations drops annotations without clearing it
InitRehighlight ==
  /\ \E tree \in HighlightTrees \ {Paragraph(PlainText(MaxTextLen))} : markdown = tree.markdown /\ container = Mount(tree)
  /\ annotations \in HighlightInputs(markdown, MaxMarked)
  /\ annotations # <<>>
  /\ activeAnnotationId \in {1, Len(annotations) + 1}
  /\ selection = NoSelection
  /\ pending = NoPending
  /\ resolved = NoCalls
  /\ shown = <<>>
  /\ editing = NoEditing
  /\ mouseUpTimerRef = FALSE
  /\ nextId = Len(annotations) + 1
  /\ now = Len(annotations)
  /\ last = NoOp
  /\ exported = <<>>

\* an annotation is deleted from the list after the highlights were applied
DeleteHighlighted ==
  /\ last.op = "highlight"
  /\ \E id \in Ids(annotations) : deleteAnnotation(id) /\ last' = Did("delete", id, 0, 0, 0)
  /\ UNCHANGED viewVars

NextRehighlight ==
  \/ Highlight
  \/ DeleteHighlighted

SpecRehighlight == InitRehighlight /\ [][NextRehighlight]_vars

\* ---------------------------------------------------------------- the view with inline editing
\* what react-markdown renders for a source of one paragraph without markup,
\* nothing for the empty source
RenderDocument(md) ==
  IF md = <<>> THEN [elements |-> <<>>, nodes |-> <<>>] ELSE Mount(Paragraph(md))

\* faulty variant: the timer of the last mouse-up keeps running
TimerKept(timer) == timer

\* clearTimeout(mouseUpTimerRef.current); mouseUpTimerRef.current = null
TimerCleared(timer) == FALSE

\* faulty variant: every save reports an edit
TextEditedAlways(newText, original) == TRUE

\* newText !== editing.originalMarkdown
TextEdited(newText, original) == newText # original

\* the effect that applies the highlights after a render: skipped while editing
HighlightEffect(c, anns, activeId, edit) ==
  IF edit # NoEditing THEN c ELSE applyHighlights(c, anns, activeId)

\* handleMouseUp of the view with inline editing, the gesture leaving the
\* selection sel: ignored while editing, else the timer is started anew
delayedMouseUp(sel) ==
  IF editing # NoEditing THEN UNCHANGED <<selection, mouseUpTimerRef>>
  ELSE /\ selection' = sel
       /\ mouseUpTimerRef' = TRUE

\* the callback of the timer, 250 ms after the mouse-up
mouseUpTimeout ==
  LET result == selectionToMarkdownRange(container, selection) IN
  /\ mouseUpTimerRef' = FALSE
  /\ pending' = IF result = NoRange THEN pending
                ELSE [kind |-> "range", selectedText |-> result.selectedText,
                      startOffset |-> result.startOffset,
                      endOffset |-> result.endOffset]

\* handleDoubleClick of the view with inline editing on the target caret:
\* the block edited is the nearest element with source attributes
editOnDoubleClick(caret) ==
  LET el == StartElement(container, caret) IN
  /\ mouseUpTimerRef' = TimerCleared(mouseUpTimerRef)
  /\ pending' = NoPending
  /\ IF InsideMark(container, caret) THEN UNCHANGED <<selection, editing>>
     ELSE /\ selection' = NoSelection
          /\ editing' = IF el = 0 THEN editing
                        ELSE [startOffset |-> container.elements[el].start,
                              endOffset |-> container.elements[el].end,
                              originalMarkdown |->
                                Slice(markdown, container.elements[el].start,
                                      container.elements[el].end)]

\* handleEditSave with the value of the textarea: onEditMarkdown is called
\* when the text differs, the document is rendered and highlighted again
saveEdit(newText) ==
  /\ IF TextEdited(newText, editing.originalMarkdown)
     THEN handleEditMarkdown(editing.startOffset, editing.endOffset, newText)
     ELSE UNCHANGED <<markdown, annotations, activeAnnotationId, nextId, now, exported>>
  /\ editing' = NoEditing
  /\ container' = HighlightEffect(IF markdown' = markdown THEN container
                                  ELSE RenderDocument(markdown'),
                                  annotations', activeAnnotationId, NoEditing)

\* handleEditCancel, and Escape in handleGlobalKeyDown: setEditing(null)
cancelEdit ==
  /\ editing' = NoEditing
  /\ container' = HighlightEffect(container, annotations, activeAnnotationId, NoEditing)

\* handlePopoverSubmit of the view with inline editing
submitPending(note) ==
  /\ addAnnotation(pending.selectedText, note, pending.startOffset, pending.endOffset, 1)
  /\ pending' = NoPending
  /\ selection' = NoSelection
  /\ container' = HighlightEffect(container, annotations', activeAnnotationId, editing)

\* handlePopoverDismiss
handlePopoverDismiss ==
  /\ pending' = NoPending
  /\ selection' = NoSelection

storeVars == <<markdown, annotations, activeAnnotationId, nextId, now, exported>>

\* the selections a drag over the text leaves: none, a caret, or a range
\* between two positions in the text
TextSelections(c) ==
  LET points == UNION {{TextPoint(i, o) : o \in 0..Len(c.nodes[i].text)}
                         : i \in TextNodesIn(c, 0)}
  IN  {NoSelection}
        \cup {[rangeCount |-> 1, start |-> p[1], end |-> p[2]] : p \in
                {p \in points \X points :
                   p[1] = p[2] \/ CharsBefore(c, p[1]) < CharsBefore(c, p[2])}}

InitInline ==
  /\ markdown \in {Typed(n) : n \in 1..MaxInputLen}
  /\ container = RenderDocument(markdown)
  /\ selection = NoSelection
  /\ pending = NoPending
  /\ resolved = NoCalls
  /\ shown = <<>>
  /\ editing = NoEditing
  /\ mouseUpTimerRef = FALSE
  /\ annotations = <<>>
  /\ activeAnnotationId = Null
  /\ nextId = 1
  /\ now = 0
  /\ last = NoOp
  /\ exported = <<>>

InlineMouseUp ==
  /\ \E sel \in TextSelections(container) : delayedMouseUp(sel)
  /\ last' = Did("mouseup", Null, 0, 0, 0)
  /\ UNCHANGED <<storeVars, container, pending, resolved, shown, editing>>

InlineTimeout ==
  /\ mouseUpTimerRef
  /\ mouseUpTimeout
  /\ last' = Did("timeout", Null, 0, 0, 0)
  /\ UNCHANGED <<storeVars, container, selection, resolved, shown, editing>>

InlineDoubleClick ==
  /\ \E caret \in {p \in Points(container) : p.kind # "outside"} : editOnDoubleClick(caret)
  /\ last' = Did("dblclick", Null, 0, 0, 0)
  /\ UNCHANGED <<storeVars, container, resolved, shown>>

\* Save, or Enter with the command key, in the overlay
InlineSave ==
  /\ editing # NoEditing
  /\ \E n \in 0..MaxInputLen :
       /\ saveEdit(Typed(n))
       /\ last' = Did("save", Null, editing.startOffset, editing.endOffset, n)
  /\ UNCHANGED <<selection, pending, resolved, shown, mouseUpTimerRef>>

\* Cancel, or Escape in the textarea
InlineCancel ==
  /\ editing # NoEditing
  /\ cancelEdit
  /\ last' = Did("cancel", Null, 0, 0, 0)
  /\ UNCHANGED <<storeVars, selection, pending, resolved, shown, mouseUpTimerRef>>

\* Escape while the textarea does not have the focus
InlineEscape ==
  /\ editing # NoEditing
  /\ cancelEdit
  /\ last' = Did("escape", Null, 0, 0, 0)
  /\ UNCHANGED <<storeVars, selection, pending, resolved, shown, mouseUpTimerRef>>

InlineSubmit ==
  /\ pending # NoPending
  /\ nextId <= MaxNoted
  /\ submitPending(<<"x">>)
  /\ last' = Did("submit", nextId, 0, 0, 0)
  /\ UNCHANGED <<resolved, shown, editing, mouseUpTimerRef>>

InlineDismiss ==
  /\ pending # NoPending
  /\ handlePopoverDismiss
  /\ last' = Did("dismiss", Null, 0, 0, 0)
  /\ UNCHANGED <<storeVars, container, resolved, shown, editing, mouseUpTimerRef>>

NextInline ==
  \/ InlineMouseUp
  \/ InlineTimeout
  \/ InlineDoubleClick
  \/ InlineSave
  \/ InlineCancel
  \/ InlineEscape
  \/ InlineSubmit
  \/ InlineDismiss

SpecInline == InitInline /\ [][NextInline]_vars

\* ---------------------------------------------------------------- properties
\* the elements of a sequence
Range(s) == {s[i] : i \in DOMAIN s}

\* the index of the annotation with this id
Pos(s, id) == CHOOSE i \in DOMAIN s : s[i].id = id

\* the edit observed last
LastDelta == last.newLength - (last.editEnd - last.editStart)

ZeroWidthAt(a, offset) ==
  a.markdownStartOffset = offset /\ a.markdownEndOffset = offset

\* C1: activeAnnotationId is null or the id of an annotation of the current
\* set, also after shiftAnnotations dropped the active annotation.
C1_ActiveRefersToAnnotation ==
  activeAnnotationId = Null \/ activeAnnotationId \in Ids(annotations)

\* C2: deleteAnnotation(id) removes exactly the annotation with that id, keeps
\* every other annotation with its fields and in its order, and sets
\* activeAnnotationId to null if it was id and leaves it otherwise.
C2_DeleteRemovesExactlyId ==
  last.op = "delete" =>
    LET prev == last.prevAnnotations IN
    /\ Ids(annotations) = Ids(prev) \ {last.id}
    /\ Len(annotations) = Cardinality(Ids(annotations))
    /\ \A i \in DOMAIN annotations : annotations[i] \in Range(prev)
    /\ \A i, j \in DOMAIN annotations :
         i < j => Pos(prev, annotations[i].id) < Pos(prev, annotations[j].id)
    /\ (last.prevActive = last.id => activeAnnotationId = Null)
    /\ (last.prevActive # last.id => activeAnnotationId = last.prevActive)

C2_Witness ==
  /\ last.op = "delete"
  /\ Len(last.prevAnnotations) >= 2
  /\ last.id \in Ids(last.prevAnnotations)
  /\ last.prevActive = last.id
  /\ Len(annotations) = Len(last.prevAnnotations) - 1

\* C3 as stated: every annotation with end <= editStart, a zero-width one at
\* editStart included, is kept by shiftAnnotations with start and end unchanged.
C3_BeforeEditUnchanged ==
  last.op = "shift" =>
    \A a \in Range(last.prevAnnotations) :
      a.markdownEndOffset <= last.editStart => a \in Range(annotations)

\* C3 amended: every annotation with end <= editStart that is not a zero-width
\* annotation at editStart is kept with start and end unchanged.
C3_BeforeEditUnchangedUnlessPointAtStart ==
  last.op = "shift" =>
    \A a \in Range(last.prevAnnotations) :
      (a.markdownEndOffset <= last.editStart /\ ~ZeroWidthAt(a, last.editStart))
        => a \in Range(annotations)

C3_Witness ==
  /\ last.op = "shift"
  /\ LastDelta # 0
  /\ \E a \in Range(last.prevAnnotations) :
       /\ a.markdownEndOffset = last.editStart
       /\ a.markdownStartOffset < last.editStart
       /\ a \in Range(annotations)

\* C4 as stated: every annotation with start >= editEnd, a zero-width one at
\* editEnd included, is kept with start and end both moved by delta.
C4_AfterEditShifted ==
  last.op = "shift" =>
    \A a \in Range(last.prevAnnotations) :
      a.markdownStartOffset >= last.editEnd =>
        [a EXCEPT !.markdownStartOffset = @ + LastDelta,
                  !.markdownEndOffset = @ + LastDelta] \in Range(annotations)

\* C4 amended: every annotation with start >= editEnd that is not a zero-width
\* annotation at editEnd is kept with start and end both moved by delta.
C4_AfterEditShiftedUnlessPointAtEnd ==
  last.op = "shift" =>
    \A a \in Range(last.prevAnnotations) :
      (a.markdownStartOffset >= last.editEnd /\ ~ZeroWidthAt(a, last.editEnd)) =>
        [a EXCEPT !.markdownStartOffset = @ + LastDelta,
                  !.markdownEndOffset = @ + LastDelta] \in Range(annotations)

C4_Witness ==
  /\ last.op = "shift"
  /\ LastDelta # 0
  /\ last.editStart = last.editEnd
  /\ \E a \in Range(last.prevAnnotations) :
       /\ a.markdownStartOffset = last.editEnd
       /\ a.markdownEndOffset > a.markdownStartOffset
       /\ a.id \in Ids(annotations)

\* C5: every annotation with start >= editStart and end <= editEnd is removed
\* by shiftAnnotations.
C5_InsideEditDropped ==
  last.op = "shift" =>
    \A a \in Range(last.prevAnnotations) :
      (a.markdownStartOffset >= last.editStart /\ a.markdownEndOffset <= last.editEnd)
        => a.id \notin Ids(annotations)

C5_Witness ==
  /\ last.op = "shift"
  /\ \E a \in Range(last.prevAnnotations) :
       /\ a.markdownStartOffset >= last.editStart
       /\ a.markdownEndOffset <= last.editEnd
       /\ a.markdownStartOffset < a.markdownEndOffset
       /\ a.id \notin Ids(annotations)
  /\ annotations # <<>>

\* C6: every annotation that partially overlaps the edit (start < editEnd,
\* end > editStart, not contained in the edit) is removed by shiftAnnotations.
C6_PartialOverlapDropped ==
  last.op = "shift" =>
    \A a \in Range(last.prevAnnotations) :
      (/\ a.markdownStartOffset < last.editEnd
       /\ a.markdownEndOffset > last.editStart
       /\ ~(a.markdownStartOffset >= last.editStart /\ a.markdownEndOffset <= last.editEnd))
        => a.id \notin Ids(annotations)

C6_Witness ==
  /\ last.op = "shift"
  /\ \E a \in Range(last.prevAnnotations) :
       /\ a.markdownStartOffset < last.editStart
       /\ a.markdownEndOffset >= last.editEnd
       /\ last.editStart < last.editEnd
       /\ a.id \notin Ids(annotations)

\* C7: from a collection whose offsets satisfy 0 <= start <= end <= length of
\* the text, every operation (a create with valid offsets, an update, a
\* delete, an edit) leaves a collection whose offsets satisfy the bound for
\* the text after it, for an edit the length plus delta.
C7_OffsetsWithinText ==
  LET length == IF last.op = "shift" THEN last.prevLength + LastDelta ELSE Len(markdown)
  IN  \A a \in Range(annotations) :
        /\ 0 <= a.markdownStartOffset
        /\ a.markdownStartOffset <= a.markdownEndOffset
        /\ a.markdownEndOffset <= length

C7_Witness ==
  /\ last.op = "shift"
  /\ LastDelta < 0
  /\ \E a \in Range(annotations) :
       /\ a.markdownEndOffset = last.prevLength + LastDelta
       /\ a.markdownStartOffset < a.markdownEndOffset
       /\ a \notin Range(last.prevAnnotations)

\* C8: the list is sorted ascending by start, annotations with equal start in
\* ascending createdAt order.
C8_ListSortedByStartThenCreatedAt ==
  \A i, j \in DOMAIN sortedAnnotations :
    i < j =>
      \/ sortedAnnotations[i].markdownStartOffset < sortedAnnotations[j].markdownStartOffset
      \/ /\ sortedAnnotations[i].markdownStartOffset = sortedAnnotations[j].markdownStartOffset
         /\ sortedAnnotations[i].createdAt <= sortedAnnotations[j].createdAt

C8_Witness ==
  \E i, j \in DOMAIN sortedAnnotations :
    /\ i < j
    /\ sortedAnnotations[i].markdownStartOffset = sortedAnnotations[j].markdownStartOffset
    /\ sortedAnnotations[i].createdAt < sortedAnnotations[j].createdAt

\* the indices of the output that hold the note of this annotation
NoteIndices(out, id) == {i \in DOMAIN out : out[i].owner = id}

\* the number of characters of the markdown before index i of the output
SourceBefore(out, i) == Cardinality({k \in 1..(i - 1) : out[k].owner = Null})

\* the note of ann stands in one piece, spelled literal, after exactly offset
\* characters of the markdown
NotePlaced(out, ann, literal, offset) ==
  LET at == NoteIndices(out, ann.id) IN
  /\ Cardinality(at) = Len(literal)
  /\ \E first \in DOMAIN out :
       /\ at = first..(first + Len(literal) - 1)
       /\ \A k \in DOMAIN literal : out[first + k - 1].ch = literal[k]
       /\ SourceBefore(out, first) = offset

\* C9: generateExport places ' {note}' of every range annotation right after
\* the original character at index end - 1 and '{note}' of every point
\* annotation right before the original character at index start, also for
\* overlapping and nested annotations.
C9_NotesPlacedAtOffsets ==
  last.op = "export" =>
    \A ann \in Range(annotations) :
      IF ann.kind = "point"
      THEN NotePlaced(exported, ann, NoteLiteral(ann), ann.markdownStartOffset)
      ELSE NotePlaced(exported, ann, <<" ">> \o NoteLiteral(ann), ann.markdownEndOffset)

\* C10: the output of generateExport without the inserted note characters is
\* the source text, and for an empty annotation set the output is the source
\* text.
C10_ExportKeepsSource ==
  last.op = "export" =>
    /\ Text(SelectSeq(exported, LAMBDA c : c.owner = Null)) = markdown
    /\ (annotations = <<>> => Text(exported) = markdown)

C10_Witness ==
  /\ last.op = "export"
  /\ Len(annotations) >= 2
  /\ Len(markdown) >= 2
  /\ Len(exported) > Len(markdown)
  /\ \E i \in DOMAIN exported :
       /\ i > 1 /\ i < Len(exported)
       /\ exported[i].owner # Null
       /\ exported[i - 1].owner = Null
       /\ exported[Len(exported)].owner = Null

\* every annotation is a range and no two of them share a character
DisjointRanges(anns) ==
  /\ \A i \in DOMAIN anns :
       anns[i].kind = "range" /\ anns[i].markdownStartOffset < anns[i].markdownEndOffset
  /\ \A i, j \in DOMAIN anns :
       i # j => \/ anns[i].markdownEndOffset <= anns[j].markdownStartOffset
                \/ anns[j].markdownEndOffset <= anns[i].markdownStartOffset

\* the source from offset i on with ' {note}' after the end of each range,
\* built from the set of annotations and not from their order
RECURSIVE SourceWithNotes(_, _, _)
SourceWithNotes(md, anns, i) ==
  LET ending == {a \in Range(anns) : a.markdownEndOffset = i}
      notes == IF ending = {} THEN <<>>
               ELSE <<" ">> \o NoteLiteral(CHOOSE a \in ending : TRUE)
  IN  IF i >= Len(md) THEN notes
      ELSE notes \o <<md[i + 1]>> \o SourceWithNotes(md, anns, i + 1)

IdSeq(s) == [i \in DOMAIN s |-> s[i].id]

\* every id of s occurs in t, and in the same order
IsSubsequenceOfIds(s, t) ==
  /\ Ids(s) \subseteq Ids(t)
  /\ \A i, j \in DOMAIN s : i < j => Pos(t, s[i].id) < Pos(t, s[j].id)

\* C19: no two annotations of the store share an id and no id changes:
\* addAnnotation appends an annotation whose id no annotation of the set has,
\* update keeps the ids as they are, delete and shift keep the ids of the
\* annotations they retain.
C19_IdsUniqueAndStable ==
  LET prev == last.prevAnnotations IN
  /\ Cardinality(Ids(annotations)) = Len(annotations)
  /\ last.op = "add" =>
       /\ SubSeq(IdSeq(annotations), 1, Len(prev)) = IdSeq(prev)
       /\ Len(annotations) = Len(prev) + 1
       /\ annotations[Len(annotations)].id \notin Ids(prev)
  /\ last.op = "update" => IdSeq(annotations) = IdSeq(prev)
  /\ last.op \in {"delete", "shift"} => IsSubsequenceOfIds(annotations, prev)

C19_Witness ==
  /\ last.op = "add"
  /\ Len(last.prevAnnotations) = MaxInputAnn
  /\ Len(annotations) = MaxInputAnn + 1
  /\ annotations[Len(annotations)].createdAt = last.prevAnnotations[MaxInputAnn].createdAt

\* C20: every annotation retained by shiftAnnotations keeps its id, note,
\* selectedText, createdAt and kind and its length end - start; its start and
\* end move by the same amount.
C20_ShiftChangesOffsetsOnly ==
  last.op = "shift" =>
    \A b \in Range(annotations) :
      \E a \in Range(last.prevAnnotations) :
        /\ b.id = a.id
        /\ b.note = a.note
        /\ b.selectedText = a.selectedText
        /\ b.createdAt = a.createdAt
        /\ b.kind = a.kind
        /\ b.markdownEndOffset - b.markdownStartOffset
             = a.markdownEndOffset - a.markdownStartOffset
        /\ b.markdownStartOffset - a.markdownStartOffset
             = b.markdownEndOffset - a.markdownEndOffset

C20_Witness ==
  /\ last.op = "shift"
  /\ LastDelta # 0
  /\ \E b \in Range(annotations) :
       /\ b.markdownStartOffset < b.markdownEndOffset
       /\ b \notin Range(last.prevAnnotations)
       /\ b.selectedText # <<>>
  /\ \E b \in Range(annotations) : b \in Range(last.prevAnnotations)

\* C12: a second pass of applyHighlights over the same tree with the same
\* annotations and activeId leaves the markers of the first pass: same ids,
\* active flags, count and wrapped text, nothing accumulates.
C12_HighlightIdempotent ==
  \A k \in DOMAIN shown : k > 1 => shown[k] = shown[1]

C12_Witness ==
  /\ Len(shown) >= 2
  /\ \E i, j \in DOMAIN shown[2] :
       /\ shown[2][i].tag = "mark" /\ shown[2][i].active
       /\ shown[2][j].tag = "span" /\ ~shown[2][j].active
  /\ Len(container.elements) > 1

\* the rendered characters of the tree that show source characters of the
\* annotation's range
CoveredText(c, ann) ==
  SelectSeq(TextFrom(c, 1), LAMBDA r :
    r.src >= ann.markdownStartOffset /\ r.src < ann.markdownEndOffset)

IsRange(ann) == ann.kind = "range" /\ ann.markdownStartOffset < ann.markdownEndOffset

Overlap(a, b) ==
  a.markdownStartOffset < b.markdownEndOffset /\ b.markdownStartOffset < a.markdownEndOffset

\* C13: of two or more range annotations that overlap (nested and identical
\* ranges included) inside a rendered node, applyHighlights gives each a
\* marker of its own carrying its id; none is left without a marker.
C13_OverlappingRangesEachMarked ==
  shown # <<>> =>
    \A i, j \in DOMAIN annotations :
      (/\ i # j
       /\ IsRange(annotations[i]) /\ IsRange(annotations[j])
       /\ Overlap(annotations[i], annotations[j])
       /\ CoveredText(container, annotations[i]) # <<>>
       /\ CoveredText(container, annotations[j]) # <<>>)
        => \E k \in DOMAIN shown[1] :
             shown[1][k].tag = "mark" /\ shown[1][k].id = annotations[i].id

\* the point markers of the tree that carry this id
PointMarkersOf(c, id) ==
  {i \in DOMAIN c.nodes : c.nodes[i].kind = "point" /\ c.nodes[i].id = id}

\* C14: for a point annotation at offset o inside a node with span
\* [elStart, elEnd], insertPointMarker inserts exactly one marker with the
\* annotation's id, after exactly o - elStart rendered characters of that
\* node, for every o from elStart to elEnd.
C14_PointMarkerAtOffset ==
  (Len(shown) = 1 /\ Len(annotations) = 1 /\ annotations[1].kind = "point") =>
    LET o == annotations[1].markdownStartOffset
        at == PointMarkersOf(container, annotations[1].id)
    IN  (\E el \in DOMAIN container.elements :
           container.elements[el].start <= o /\ o <= container.elements[el].end)
        => /\ Cardinality(at) = 1
           /\ \E el \in DOMAIN container.elements, i \in at :
                /\ container.elements[el].start <= o
                /\ o <= container.elements[el].end
                /\ IsInside(container.elements, container.nodes[i].el, el)
                /\ CharCount(container, el, i) = o - container.elements[el].start

\* C15: for an annotation created from a range that selectionToMarkdownRange
\* resolved to offsets [s, e) and anchor text t, the source between s and e is
\* t at the moment of creation, also when markup is not rendered and when the
\* selection starts or ends with white space.
C15_AnchorTextIsSourceSlice ==
  last.op = "submit" =>
    \A a \in Range(annotations) :
      a.selectedText # <<>> =>
        Slice(markdown, a.markdownStartOffset, a.markdownEndOffset) = a.selectedText

\* C16: every range resolved for a non-collapsed selection, and the pending
\* and created range annotation, has start < end, also when the endpoints
\* resolve against different elements; every point annotation has start = end.
C16_RangeNotEmpty ==
  /\ resolved.result # NoRange =>
       resolved.result.startOffset < resolved.result.endOffset
  /\ pending.kind = "range" => pending.startOffset < pending.endOffset
  /\ pending.kind = "point" => pending.startOffset = pending.endOffset
  /\ last.op = "submit" =>
       \A a \in Range(annotations) :
         IF a.selectedText # <<>> THEN a.markdownStartOffset < a.markdownEndOffset
         ELSE a.markdownStartOffset = a.markdownEndOffset

\* the nearest element with source attributes at or above a boundary point
OwningElement(c, point) ==
  IF point.kind = "element" THEN point.at ELSE c.nodes[point.at].el

\* C17: every offset findSourcePosition returns lies in [start, end] of the
\* nearest ancestor with position metadata, for every endpoint and layout.
C17_PositionWithinOwningElement ==
  \A k \in DOMAIN resolved.calls :
    LET call == resolved.calls[k]
        el == OwningElement(container, call.point)
    IN  call.position # NoPosition =>
          /\ el # 0
          /\ container.elements[el].start <= call.position
          /\ call.position <= container.elements[el].end

C17_Witness ==
  /\ Len(resolved.calls) = 2
  /\ OwningElement(container, resolved.calls[1].point)
       # OwningElement(container, resolved.calls[2].point)
  /\ \E k \in DOMAIN resolved.calls :
       LET el == OwningElement(container, resolved.calls[k].point) IN
       /\ el # 0
       /\ container.elements[el].parent # 0
       /\ resolved.calls[k].position > container.elements[el].start
       /\ resolved.calls[k].position < container.elements[el].end

\* a boundary point below no element with source attributes
Unanchored(c, point) == point.kind # "outside" /\ OwningElement(c, point) = 0

\* C18: selectionToMarkdownRange returns null whenever an endpoint has no
\* ancestor with position metadata or lies outside the container or the
\* selected text is empty after trimming; and when it returns null, no
\* pending annotation is set and no annotation is created.
C18_NullLeavesNothingPending ==
  last.op = "mouseup" =>
    /\ (\/ selection.rangeCount = 0
        \/ ~Contains(container, selection.start)
        \/ ~Contains(container, selection.end)
        \/ Unanchored(container, selection.start)
        \/ Unanchored(container, selection.end)
        \/ \A ch \in Range(SelectionText(container, selection)) : ch \in WhiteSpace)
         => resolved.result = NoRange
    /\ resolved.result = NoRange => pending = NoPending /\ annotations = <<>>

C18_Witness ==
  /\ last.op = "mouseup"
  /\ selection.rangeCount = 1
  /\ Contains(container, selection.start) /\ Contains(container, selection.end)
  /\ ~Unanchored(container, selection.start) /\ ~Unanchored(container, selection.end)
  /\ SelectionText(container, selection) # <<>>
  /\ resolved.result = NoRange
  /\ pending = NoPending

\* C21: updateAnnotation(id, note) changes only the note of the annotation
\* with that id; its other fields, the other annotations, the stored order and
\* activeAnnotationId are unchanged; for an id no annotation has, the set is
\* unchanged.
C21_UpdateChangesNoteOnly ==
  last.op = "update" =>
    LET prev == last.prevAnnotations IN
    /\ DOMAIN annotations = DOMAIN prev
    /\ \A i \in DOMAIN prev :
         IF prev[i].id = last.id
         THEN /\ [annotations[i] EXCEPT !.note = prev[i].note] = prev[i]
              /\ annotations[i].note \in Notes
         ELSE annotations[i] = prev[i]
    /\ activeAnnotationId = last.prevActive
    /\ last.id \notin Ids(prev) => annotations = prev

C21_Witness ==
  /\ last.op = "update"
  /\ Len(annotations) = MaxInputAnn
  /\ annotations # last.prevAnnotations
  /\ activeAnnotationId = last.id
  /\ last.id = annotations[1].id

\* the annotations of s that t retains, in the order of s
Retained(s, t) == SelectSeq(s, LAMBDA a : a.id \in Ids(t))

\* C30: shiftAnnotations keeps the position order of the annotations it
\* retains: a.start <= b.start before a valid edit implies a.start <= b.start
\* after it, so the sorted list shows the survivors in their old order.
C30_ShiftKeepsPositionOrder ==
  last.op = "shift" =>
    LET prev == last.prevAnnotations IN
    /\ \A i, j \in DOMAIN annotations :
         LET a == prev[Pos(prev, annotations[i].id)]
             b == prev[Pos(prev, annotations[j].id)]
         IN  a.markdownStartOffset <= b.markdownStartOffset =>
               annotations[i].markdownStartOffset <= annotations[j].markdownStartOffset
    /\ IdSeq(sortedAnnotations) = IdSeq(Retained(StableSort(prev, 1), annotations))

C30_Witness ==
  /\ last.op = "shift"
  /\ LastDelta > 0
  /\ \E i, j \in DOMAIN annotations :
       /\ i > j
       /\ annotations[i] \in Range(last.prevAnnotations)
       /\ annotations[j] \notin Range(last.prevAnnotations)
       /\ annotations[i].markdownStartOffset < annotations[j].markdownStartOffset

\* C23: applyHighlights, generateExport and the sorted list leave the stored
\* collection as it was: every annotation's fields and the stored order.
C23_RenderingKeepsCollection ==
  last.op \in {"list", "highlight", "export"} => annotations = last.prevAnnotations

C23_Witness ==
  /\ last.op \in {"highlight", "export"}
  /\ Len(annotations) >= 2
  /\ annotations # StableSort(annotations, -1)
  /\ shown # <<>>
  /\ exported # <<>>

\* C24: after every applyHighlights pass each marker carries the id of an
\* annotation of the set passed to that pass, and is flagged active exactly
\* when that id is activeId, also when activeId names no annotation of the set.
C24_MarkersOfCurrentSet ==
  last.op = "highlight" =>
    \A k \in DOMAIN shown[Len(shown)] :
      LET marker == shown[Len(shown)][k] IN
      /\ marker.id \in Ids(annotations)
      /\ marker.active <=> marker.id = activeAnnotationId

C24_Witness ==
  /\ last.op = "highlight"
  /\ Len(shown) = 2
  /\ Len(shown[2]) < Len(shown[1])
  /\ shown[2] # <<>>
  /\ activeAnnotationId \notin Ids(annotations) \cup {Null}
  /\ \E k \in DOMAIN shown[1] : shown[1][k].id \notin Ids(annotations)

\* C25: for a range annotation and a rendered node whose span overlaps it,
\* every rendered character of the node that shows a source character of the
\* overlap is inside a mark of the annotation, also when the run extends over
\* several text nodes of the node (here: the only annotation, after one pass).
C25_WholeOverlapWrapped ==
  (Len(shown) = 1 /\ Len(annotations) = 1 /\ IsRange(annotations[1])) =>
    \A el \in DOMAIN container.elements :
      LET ann == annotations[1]
          node == container.elements[el]
      IN  (node.start < ann.markdownEndOffset /\ node.end > ann.markdownStartOffset) =>
            \A i \in TextNodesIn(container, el) :
              \A k \in DOMAIN container.nodes[i].text :
                LET src == container.nodes[i].text[k].src IN
                (src >= ann.markdownStartOffset /\ src < ann.markdownEndOffset)
                  => container.nodes[i].mark.id = ann.id

\* the annotation with its offsets clamped to [0, n]
ClampedTo(ann, n) ==
  [ann EXCEPT !.markdownStartOffset = Max(0, Min(@, n)),
              !.markdownEndOffset = Max(0, Min(@, n))]

ClampedAll(anns, n) == [i \in DOMAIN anns |-> ClampedTo(anns[i], n)]

\* C27: generateExport given annotations with offsets outside [0, length]
\* returns what it returns for the same annotations with their offsets clamped
\* to [0, length] (compared where clamping keeps the order of processing), and
\* keeps every character of the text once and in order.
C27_ExportAsIfClamped ==
  (/\ last.op = "export"
   /\ StableSort(ClampedAll(annotations, Len(markdown)), -1)
        = ClampedAll(StableSort(annotations, -1), Len(markdown)))
    => /\ exported = generateExport(markdown, ClampedAll(annotations, Len(markdown)))
       /\ Text(SelectSeq(exported, LAMBDA c : c.owner = Null)) = markdown

\* C22: the annotation added for a double-click (clickToMarkdownOffset was
\* called, start = end) is stored with kind 'point', gets a point marker and
\* no mark from applyHighlights, and is exported as '{note}' at its offset
\* with no leading space.
C22_DoubleClickStoresPoint ==
  (Len(resolved.calls) = 1 /\ annotations # <<>>) =>
    LET ann == annotations[1] IN
    /\ ann.kind = "point"
    /\ shown # <<>> =>
         \A k \in DOMAIN shown[1] : shown[1][k].id = ann.id => shown[1][k].tag = "span"
    /\ exported # <<>> => exported = InsertAtPoint(Owned(markdown, Null), ann)

\* C26: after the user started over and loaded a new document, every
\* annotation in the store has offsets valid for the new text,
\* 0 <= start <= end <= length: none created against the previous document
\* remains.
C26_OffsetsValidAfterReload ==
  markdown # NoDocument =>
    \A ann \in Range(annotations) :
      /\ 0 <= ann.markdownStartOffset
      /\ ann.markdownStartOffset <= ann.markdownEndOffset
      /\ ann.markdownEndOffset <= Len(markdown)

\* C28: in the view with inline editing, whenever an edit is in progress
\* there is no pending annotation and no running mouse-up timer, and the text
\* never changes under a pending annotation or a running timer: no annotation
\* is created with offsets resolved before an edit that has since been saved.
C28_NothingPendingWhileEditing ==
  /\ [](editing # NoEditing => (pending = NoPending /\ ~mouseUpTimerRef))
  /\ [][markdown' # markdown =>
         (pending = NoPending /\ pending' = NoPending /\ ~mouseUpTimerRef')]_vars

C28_Witness ==
  /\ editing # NoEditing
  /\ last.op = "mouseup"
  /\ annotations # <<>>
  /\ Len(markdown) # Len(annotations[1].selectedText)

\* C29: cancelling an inline edit (Cancel or Escape), or saving it with the
\* text of the block unchanged, leaves the source text and every annotation
\* as they were and clears the editing state.
C29_CancelOrSameTextChangesNothing ==
  [][(\/ last'.op \in {"cancel", "escape"}
      \/ (last'.op = "save" /\ Typed(last'.newLength) = editing.originalMarkdown))
       => (markdown' = markdown /\ annotations' = annotations /\ editing' = NoEditing)]_vars

C29_Witness ==
  /\ last.op = "save"
  /\ last.newLength = last.editEnd - last.editStart
  /\ editing = NoEditing
  /\ \E ann \in Range(annotations) :
       /\ ann.markdownStartOffset >= last.editStart
       /\ ann.markdownEndOffset <= last.editEnd

====
